---- MODULE Spec2Model ----
(***************************************************************************)
(* ComfyUI-Pocket-TTS: the node operations of node.py and nodes.py, their  *)
(* process-wide caches, the reference-audio conversion and the temporary   *)
(* staging file of the clone node.  The synthesis engine (pocket_tts) is   *)
(* external: each of its operations either returns or raises, and every    *)
(* node operation is the set of effects its invocation can have.           *)
(***************************************************************************)
EXTENDS Integers, Sequences, FiniteSets, TLC

\* ------------------------------------------------------------------ bounds

\* Number of node invocations explored in one process lifetime.
MaxCalls == 3

\* Largest channel count / sample count of the waveforms of SpecAudio.
MaxChannels == 3
MaxSamples == 3

\* ------------------------------------------------------- program constants

\* nodes.py:162  wav_np.size < 100
MIN_SAMPLES == 100

\* node.py:55 precision choices of the loader node
Precisions == {"float32", "float16", "bfloat16"}

\* node.py:32 / nodes.py:26, two of the eight built-in voices
BUILTIN_VOICES == {"alba", "marius"}

\* node.py:189 placeholder offered when the input directory has no audio
NO_AUDIO_FILES == "No audio files found"

\* reference file names a workflow may carry (node.py:201)
FileNames == {"a.wav", "b.wav"}
ReferenceChoices == FileNames \cup {NO_AUDIO_FILES}

\* text inputs: empty and non-empty
Texts == {"", "hi"}

\* names tempfile.NamedTemporaryFile may hand out (nodes.py:170)
TmpNames == {"tmp1.wav"}


\* ----------------------------------------------------------- dictionaries

EmptyDict == [k \in {} |-> 0]

\* the assignment left out: nothing is stored
DictStoreDropped(d, k, v) == d

\* d[k] = v
DictStore(d, k, v) == [x \in (DOMAIN d) \cup {k} |-> IF x = k THEN v ELSE d[x]]

\* ------------------------------------------------------------ engine model

NoHandle == [id |-> 0, dtype |-> "none"]
NoState == [by |-> 0, src |-> ""]

\* TTSModel.load_model(): a new engine object, distinct from every earlier one
NewHandle(n) == [id |-> n, dtype |-> "float32"]

\* model.half() / model.to(torch.bfloat16): in-place conversion, same object
ConvertPrecision(model, precision) ==
    IF precision \in {"float16", "bfloat16"}
    THEN [model EXCEPT !.dtype = precision]
    ELSE model

\* model.get_state_for_audio_prompt(prompt): the state remembers its maker
DeriveVoiceState(model, prompt) == [by |-> model.id, src |-> prompt]

\* ------------------------------------------------------------------- keys

ModelKey(precision) == "model_" \o precision
PrecisionKeys == {ModelKey(p) : p \in Precisions}
ModelKeys == PrecisionKeys \cup {"model_simple", "pocket_tts"}

VoiceKey(voice) == "voice_" \o voice
CloneKey(reference_audio) == "clone_" \o reference_audio
VoicePrompt(voice) == "hf://kyutai/tts-voices/" \o voice \o "/casual.wav"
AudioPath(reference_audio) == "input/" \o reference_audio

\* identifiers under which a voice derivation is counted
VoiceIds ==
    {VoiceKey(v) : v \in BUILTIN_VOICES} \cup {CloneKey(f) : f \in FileNames}
    \cup BUILTIN_VOICES

\* ------------------------------------------------------------ numpy arrays
\* An ndarray is its shape and its elements in row-major order.  Sample
\* values are counted in units of 1/60, so that 60 stands for 1.0 and every
\* mean taken below is exact; the values used are exact in float32, so the
\* final astype(np.float32) keeps them.

None == [t |-> "none"]
IntVal(n) == [t |-> "int", v |-> n]
Array(shape, data) == [t |-> "array", shape |-> shape, data |-> data]

RECURSIVE Prod(_)
Prod(s) == IF s = <<>> THEN 1 ELSE Head(s) * Prod(Tail(s))

RECURSIVE SumTo(_, _)
\* f[1] + ... + f[n]
SumTo(f, n) == IF n = 0 THEN 0 ELSE f[n] + SumTo(f, n - 1)

Front(s) == SubSeq(s, 1, Len(s) - 1)
Ndim(a) == Len(a.shape)
Size(a) == Len(a.data)

\* waveform.squeeze(0), waveform.squeeze(-1): drop a singleton dimension
Squeeze0(a) == Array(Tail(a.shape), a.data)
SqueezeLast(a) == Array(Front(a.shape), a.data)

\* np.mean(waveform, axis=0): element j is the mean over the first index
MeanAxis0(a) ==
    LET d == a.shape[1]
        rest == Prod(Tail(a.shape))
    IN  Array(Tail(a.shape),
              [j \in 1..rest |->
                  SumTo([i \in 1..d |-> a.data[(i - 1) * rest + j]], d) \div d])

\* np.mean(waveform, axis=-1): element i is the mean over the last index
MeanAxisLast(a) ==
    LET d == a.shape[Len(a.shape)]
        outer == Prod(Front(a.shape))
    IN  Array(Front(a.shape),
              [i \in 1..outer |->
                  SumTo([j \in 1..d |-> a.data[(i - 1) * d + j]], d) \div d])

\* axis=0 if waveform.shape[0] <= 2 else -1
MeanAxis(a) == IF a.shape[1] <= 2 THEN MeanAxis0(a) ELSE MeanAxisLast(a)

RECURSIVE RemoveExtraDims(_)
\* while waveform.ndim > 1: squeeze a singleton end, else average to mono
RemoveExtraDims(a) ==
    IF Ndim(a) <= 1 THEN a
    ELSE IF a.shape[1] = 1 THEN RemoveExtraDims(Squeeze0(a))
    ELSE IF a.shape[Len(a.shape)] = 1 THEN RemoveExtraDims(SqueezeLast(a))
    ELSE RemoveExtraDims(MeanAxis(a))

\* dict.get(key): None when the key is absent
DictGet(d, k) == IF k \in DOMAIN d THEN d[k] ELSE None

\* Python's `x or y` on an optional integer: None and 0 are falsy
PyOr(x, y) == IF x # None /\ x # IntVal(0) THEN x ELSE y

\* PocketTTSClone.audio_tensor_to_numpy: (waveform, int(sr)), or it raises
audio_tensor_to_numpy(audio_tensor) ==
    LET wf == IF "waveform" \in DOMAIN audio_tensor THEN audio_tensor["waveform"]
              ELSE IF "data" \in DOMAIN audio_tensor THEN audio_tensor["data"]
              ELSE None
        sr == IF "waveform" \in DOMAIN audio_tensor
              THEN PyOr(DictGet(audio_tensor, "sample_rate"),
                        DictGet(audio_tensor, "sr"))
              ELSE IF "data" \in DOMAIN audio_tensor
              THEN DictGet(audio_tensor, "sampling_rate")
              ELSE None
        wav == IF wf # None THEN RemoveExtraDims(wf) ELSE None
    IN  IF wav = None \/ sr = None \/ Size(wav) = 0
        THEN [raised |-> TRUE, wav |-> None, sr |-> 0]
        ELSE [raised |-> FALSE, wav |-> wav, sr |-> sr.v]

\* ---------------------------------------------------- reference audio inputs

Const(n, x) == [i \in 1..n |-> x]
Rate == IntVal(24000)

\* host audio values offered to the clone node, by name
RefAudio ==
    [no_waveform |-> [sr |-> Rate],
     empty       |-> [waveform |-> Array(<<1, 1, 0>>, <<>>), sample_rate |-> Rate],
     scalar      |-> [waveform |-> Array(<<>>, <<60>>), sample_rate |-> Rate],
     short       |-> [waveform |-> Array(<<1, 1, MIN_SAMPLES - 1>>, Const(MIN_SAMPLES - 1, 60)),
                      sample_rate |-> Rate],
     exact       |-> [waveform |-> Array(<<1, 1, MIN_SAMPLES>>, Const(MIN_SAMPLES, 60)),
                      sample_rate |-> Rate],
     stereo      |-> [data |-> Array(<<2, MIN_SAMPLES>>, Const(2 * MIN_SAMPLES, -60)),
                      sampling_rate |-> Rate]]

RefNames == DOMAIN RefAudio

\* wav_np, sr = self.audio_tensor_to_numpy(ref_audio), for each input above
ConvertedRef == [r \in RefNames |-> audio_tensor_to_numpy(RefAudio[r])]

VARIABLES
    available,      \* POCKET_TTS_AVAILABLE
    model_cache,    \* node.py _model_cache
    voice_cache,    \* node.py _voice_cache
    MODEL_CACHE,    \* nodes.py _MODEL_CACHE
    input_files,    \* names present in the host's input directory
    tmp_files,      \* staging files present in the temp directory
    nextId,         \* number of engine objects constructed so far
    loadCalls,      \* per model key: invocations of TTSModel.load_model
    returned,       \* per model key: handles the get-or-load returned
    deriveOk,       \* per voice id: get_state_for_audio_prompt calls that returned
    ncalls,         \* node invocations so far
    last,           \* the latest node invocation: inputs, outcome, engine calls
    waveform,       \* SpecAudio: the host waveform under conversion
    mono            \* SpecAudio: what audio_tensor_to_numpy returned

vars == <<available, model_cache, voice_cache, MODEL_CACHE, input_files,
          tmp_files, nextId, loadCalls, returned, deriveOk, ncalls, last,
          waveform, mono>>

audioVars == <<waveform, mono>>

\* ------------------------------------------------------- cache operations
\* The engine is external: wherever the code calls it, the call either
\* returns or raises.  A get-or-load / get-or-build step is therefore the set
\* of ways it can end, each a record Got.

Got(cache, value, calls, raised, built) ==
    [cache |-> cache, value |-> value, calls |-> calls, raised |-> raised,
     built |-> built]

\* node.py load_model, from cache_key on: cached handle, or load + convert + store
LoaderGetOrLoad(cache, precision, id) ==
    LET cache_key == ModelKey(precision)
        model == ConvertPrecision(NewHandle(id + 1), precision)
        converts == precision \in {"float16", "bfloat16"}
    IN  IF cache_key \in DOMAIN cache
        THEN {Got(cache, cache[cache_key], <<>>, FALSE, 0)}
        ELSE {Got(cache, NoHandle, <<"load_model">>, TRUE, 0),
              Got(DictStore(cache, cache_key, model), model,
                  IF converts THEN <<"load_model", "convert">>
                  ELSE <<"load_model">>,
                  FALSE, 1)}
             \cup (IF converts
                   THEN {Got(cache, NoHandle, <<"load_model", "convert">>, TRUE, 1)}
                   ELSE {})

\* node.py generate_simple, "Load model if not cached"
SimpleGetOrLoad(cache, id) ==
    IF "model_simple" \notin DOMAIN cache
    THEN {Got(cache, NoHandle, <<"load_model">>, TRUE, 0),
          Got(DictStore(cache, "model_simple", NewHandle(id + 1)),
              NewHandle(id + 1), <<"load_model">>, FALSE, 1)}
    ELSE {Got(cache, cache["model_simple"], <<>>, FALSE, 0)}

\* nodes.py load_model()
load_model(cache, id) ==
    IF "pocket_tts" \in DOMAIN cache
    THEN {Got(cache, cache["pocket_tts"], <<>>, FALSE, 0)}
    ELSE {Got(cache, NoHandle, <<"load_model">>, TRUE, 0),
          Got(DictStore(cache, "pocket_tts", NewHandle(id + 1)),
              NewHandle(id + 1), <<"load_model">>, FALSE, 1)}

\* the cache slot written before the engine is asked, so that a derivation
\* that raises leaves an entry behind
VoiceGetOrBuildEager(cache, cache_key, model, prompt) ==
    IF cache_key \notin DOMAIN cache
    THEN {Got(DictStore(cache, cache_key, NoState), NoState, <<"get_state">>,
              TRUE, 0),
          Got(DictStore(cache, cache_key, DeriveVoiceState(model, prompt)),
              DeriveVoiceState(model, prompt), <<"get_state">>, FALSE, 1)}
    ELSE {Got(cache, cache[cache_key], <<>>, FALSE, 0)}

\* node.py "Get or create voice state" (generate, generate_with_clone and
\* generate_simple carry the same block)
VoiceGetOrBuild(cache, cache_key, model, prompt) ==
    IF cache_key \notin DOMAIN cache
    THEN {Got(cache, NoState, <<"get_state">>, TRUE, 0),
          Got(DictStore(cache, cache_key, DeriveVoiceState(model, prompt)),
              DeriveVoiceState(model, prompt), <<"get_state">>, FALSE, 1)}
    ELSE {Got(cache, cache[cache_key], <<>>, FALSE, 0)}

\* nodes.py: voice_state = model.get_state_for_audio_prompt(...), no cache
VoiceBuild(model, prompt) ==
    {Got(EmptyDict, NoState, <<"get_state">>, TRUE, 0),
     Got(EmptyDict, DeriveVoiceState(model, prompt), <<"get_state">>, FALSE, 1)}

\* the availability check left out
UnavailableIgnored == FALSE

\* if not POCKET_TTS_AVAILABLE: raise
Unavailable == ~available

\* the existence check left out
PathExistsAssumed(files, name) == TRUE

\* os.path.exists(audio_path)
PathExists(files, name) == name \in files

\* the unlink left out
CleanupSkipped(files, tmp_path) == files

\* finally: if os.path.exists(tmp_path): os.unlink(tmp_path)
Cleanup(files, tmp_path) == files \ {tmp_path}

\* ------------------------------------------------------- invocation record

Blank ==
    [op |-> "none", outcome |-> "none", calls |-> <<>>, text |-> "",
     voice |-> "", model |-> NoHandle, state |-> NoState, tmp |-> "",
     ndim |-> -1, size |-> -1, missing |-> FALSE]

Invocation(op, text, voice, model) ==
    [Blank EXCEPT !.op = op, !.text = text, !.voice = voice, !.model = model]

\* the effect of one invocation on the process state
Effect(lst) ==
    [mc |-> model_cache, vc |-> voice_cache, MC |-> MODEL_CACHE,
     tmp |-> tmp_files, id |-> nextId, loaded |-> "", retKey |-> "",
     derived |-> "", last |-> lst]

Raise(eff, outcome) == [eff EXCEPT !.last.outcome = outcome]

\* the get-or-load step g, for model key `key`, recorded in the effect
Loaded(eff, key, g) ==
    [eff EXCEPT !.id = @ + g.built,
                !.loaded = IF g.calls # <<>> THEN key ELSE "",
                !.retKey = IF g.raised THEN "" ELSE key,
                !.last.calls = g.calls,
                !.last.model = g.value]

\* the voice step v, counted under voice id `id`, recorded in the effect
Voiced(eff, id, v) ==
    [eff EXCEPT !.derived = IF v.built = 1 THEN id ELSE "",
                !.last.calls = @ \o v.calls]

\* model.generate_audio(voice_state, text) and the reshaped return value
Synthesize(eff, model, state) ==
    {[eff EXCEPT !.last.calls = @ \o <<"generate_audio">>,
                 !.last.model = model,
                 !.last.state = state,
                 !.last.outcome = o] : o \in {"gen_fail", "ok"}}

\* ------------------------------------------------------------ node.py nodes
\* Each operation is the set of effects its invocation can have.

\* PocketTTSModelLoader.load_model(precision)
LoaderLoadModel(precision) ==
    LET inv == Effect(Invocation("load_model", "", precision, NoHandle))
    IN  IF Unavailable THEN {Raise(inv, "config_error")}
        ELSE {Raise([Loaded(inv, ModelKey(precision), g) EXCEPT !.mc = g.cache],
                    IF g.raised THEN "load_fail" ELSE "ok") :
              g \in LoaderGetOrLoad(model_cache, precision, nextId)}

\* node.py: voice state from the cache or the engine, then generate_audio
VoiceThenSynthesize(eff, model, id, v) ==
    LET e == [Voiced(eff, id, v) EXCEPT !.vc = v.cache]
    IN  IF v.raised THEN {Raise(e, "derive_fail")}
        ELSE Synthesize(e, model, v.value)

\* PocketTTSGenerate.generate(model, text, voice)
Generate(model, text, voice) ==
    LET inv == Effect(Invocation("generate", text, voice, model))
    IN  IF Unavailable THEN {Raise(inv, "config_error")}
        ELSE UNION {VoiceThenSynthesize(inv, model, VoiceKey(voice), v) :
                    v \in VoiceGetOrBuild(voice_cache, VoiceKey(voice), model,
                                          VoicePrompt(voice))}

\* PocketTTSVoiceClone.generate_with_clone(model, text, reference_audio)
GenerateWithClone(model, text, reference_audio) ==
    LET inv == Effect(Invocation("generate_with_clone", text, reference_audio,
                                 model))
    IN  IF Unavailable THEN {Raise(inv, "config_error")}
        ELSE IF reference_audio = NO_AUDIO_FILES THEN {Raise(inv, "no_files")}
        ELSE IF ~PathExists(input_files, reference_audio)
        THEN {Raise(inv, "not_found")}
        ELSE UNION {VoiceThenSynthesize(inv, model, CloneKey(reference_audio), v) :
                    v \in VoiceGetOrBuild(voice_cache, CloneKey(reference_audio),
                                          model, AudioPath(reference_audio))}

\* PocketTTSSimple.generate_simple(text, voice)
GenerateSimple(text, voice) ==
    LET inv == Effect(Invocation("generate_simple", text, voice, NoHandle))
    IN  IF Unavailable THEN {Raise(inv, "config_error")}
        ELSE UNION {
            LET loaded == [Loaded(inv, "model_simple", g) EXCEPT !.mc = g.cache]
            IN  IF g.raised THEN {Raise(loaded, "load_fail")}
                ELSE UNION {VoiceThenSynthesize(loaded, g.value, VoiceKey(voice), v) :
                            v \in VoiceGetOrBuild(voice_cache, VoiceKey(voice),
                                                  g.value, VoicePrompt(voice))} :
            g \in SimpleGetOrLoad(model_cache, nextId)}

\* ----------------------------------------------------------- nodes.py nodes

\* nodes.py: get_state_for_audio_prompt, then generate_audio
BuildThenSynthesize(eff, model, id, v) ==
    IF v.raised THEN {Raise(Voiced(eff, id, v), "derive_fail")}
    ELSE Synthesize(Voiced(eff, id, v), model, v.value)

\* nodes.py PocketTTSGenerate.generate(text, voice)
NodesGenerate(text, voice) ==
    LET inv == Effect(Invocation("nodes_generate", text, voice, NoHandle))
    IN  IF Unavailable THEN {Raise(inv, "config_error")}
        ELSE IF text = "" THEN {Raise(inv, "missing_input")}
        ELSE UNION {
            LET loaded == [Loaded(inv, "pocket_tts", g) EXCEPT !.MC = g.cache]
            IN  IF g.raised THEN {Raise(loaded, "load_fail")}
                ELSE UNION {BuildThenSynthesize(loaded, g.value, voice, v) :
                            v \in VoiceBuild(g.value, voice)} :
            g \in load_model(MODEL_CACHE, nextId)}

\* nodes.py PocketTTSClone.generate from "Write WAV file" on: the staging file
\* is created, then written, used and, in the finally block, removed
StageThenSynthesize(eff, model, tmp_path) ==
    LET created == eff.tmp \cup {tmp_path}
        staged == [eff EXCEPT !.last.tmp = tmp_path,
                              !.tmp = Cleanup(created, tmp_path)]
    IN  {Raise(staged, "write_fail")}
        \cup UNION {BuildThenSynthesize(staged, model, "", v) :
                    v \in VoiceBuild(model, tmp_path)}

\* nodes.py PocketTTSClone.generate(ref_audio, target_text); tmp_path is the
\* name tempfile picks for the staging file
CloneGenerate(ref_audio, target_text, tmp_path) ==
    LET inv == Effect(Invocation("nodes_clone", target_text, ref_audio, NoHandle))
        a == ConvertedRef[ref_audio]
    IN  IF Unavailable THEN {Raise(inv, "config_error")}
        ELSE IF target_text = "" THEN {Raise(inv, "missing_input")}
        ELSE UNION {
            LET loaded == [Loaded(inv, "pocket_tts", g) EXCEPT !.MC = g.cache]
                converted == [loaded EXCEPT !.last.ndim = Ndim(a.wav),
                                            !.last.size = Size(a.wav)]
            IN  IF g.raised THEN {Raise(loaded, "load_fail")}
                ELSE IF a.raised THEN {Raise(loaded, "parse_error")}
                ELSE IF Ndim(a.wav) # 1 THEN {Raise(converted, "not_1d")}
                ELSE IF Size(a.wav) < MIN_SAMPLES
                THEN {Raise(converted, "too_short")}
                ELSE StageThenSynthesize(converted, g.value, tmp_path) :
            g \in load_model(MODEL_CACHE, nextId)}

\* ------------------------------------------------------------------ actions

\* handles a loader node has output: the only engine objects a workflow can
\* wire into generate / generate_with_clone.  With the library missing no
\* loader output exists and the operation is entered without an engine object.
ModelInputs ==
    {model_cache[k] : k \in (DOMAIN model_cache) \cap PrecisionKeys}
    \cup (IF available THEN {} ELSE {NoHandle})

Bump(counter, key) ==
    IF key = "" THEN counter ELSE [counter EXCEPT ![key] = @ + 1]

\* the invocations explored in one process lifetime are bounded
CanInvoke == ncalls < MaxCalls

\* one node invocation takes the process from its state to eff
Apply(eff) ==
    /\ ncalls' = ncalls + 1
    /\ model_cache' = eff.mc
    /\ voice_cache' = eff.vc
    /\ MODEL_CACHE' = eff.MC
    /\ tmp_files' = eff.tmp
    /\ nextId' = eff.id
    /\ loadCalls' = Bump(loadCalls, eff.loaded)
    /\ returned' = IF eff.retKey = "" THEN returned
                   ELSE [returned EXCEPT ![eff.retKey] = @ \cup {eff.last.model}]
    /\ deriveOk' = Bump(deriveOk, eff.derived)
    /\ UNCHANGED <<available, input_files, audioVars>>

DoLoadModel ==
    /\ CanInvoke
    /\ \E precision \in Precisions :
        \E eff \in LoaderLoadModel(precision) :
            Apply(eff) /\ last' = eff.last

DoGenerate ==
    /\ CanInvoke
    /\ \E model \in ModelInputs, text \in Texts, voice \in BUILTIN_VOICES :
        \E eff \in Generate(model, text, voice) :
            Apply(eff) /\ last' = eff.last

DoGenerateWithClone ==
    /\ CanInvoke
    /\ \E model \in ModelInputs, text \in Texts,
       reference_audio \in ReferenceChoices :
        \E eff \in GenerateWithClone(model, text, reference_audio) :
            /\ Apply(eff)
            /\ last' = [eff.last EXCEPT
                          !.missing = reference_audio \notin input_files]

DoGenerateSimple ==
    /\ CanInvoke
    /\ \E text \in Texts, voice \in BUILTIN_VOICES :
        \E eff \in GenerateSimple(text, voice) :
            Apply(eff) /\ last' = eff.last

DoNodesGenerate ==
    /\ CanInvoke
    /\ \E text \in Texts, voice \in BUILTIN_VOICES :
        \E eff \in NodesGenerate(text, voice) :
            Apply(eff) /\ last' = eff.last

DoCloneGenerate ==
    /\ CanInvoke
    /\ \E ref_audio \in RefNames, target_text \in Texts,
       tmp_path \in TmpNames \ tmp_files :
        \E eff \in CloneGenerate(ref_audio, target_text, tmp_path) :
            Apply(eff) /\ last' = eff.last

\* the host (or the user) adds a file to, or removes one from, the input directory
AddFile ==
    \E f \in FileNames \ input_files :
        /\ input_files' = input_files \cup {f}
        /\ UNCHANGED <<available, model_cache, voice_cache, MODEL_CACHE,
                       tmp_files, nextId, loadCalls, returned, deriveOk,
                       ncalls, last, audioVars>>

RemoveFile ==
    \E f \in input_files :
        /\ input_files' = input_files \ {f}
        /\ UNCHANGED <<available, model_cache, voice_cache, MODEL_CACHE,
                       tmp_files, nextId, loadCalls, returned, deriveOk,
                       ncalls, last, audioVars>>

Init ==
    /\ available \in BOOLEAN
    /\ model_cache = EmptyDict
    /\ voice_cache = EmptyDict
    /\ MODEL_CACHE = EmptyDict
    /\ input_files = FileNames
    /\ tmp_files = {}
    /\ nextId = 0
    /\ loadCalls = [k \in ModelKeys |-> 0]
    /\ returned = [k \in ModelKeys |-> {}]
    /\ deriveOk = [v \in VoiceIds |-> 0]
    /\ ncalls = 0
    /\ last = Blank
    /\ waveform = None
    /\ mono = None

Next ==
    \/ DoLoadModel
    \/ DoGenerate
    \/ DoGenerateWithClone
    \/ DoGenerateSimple
    \/ DoNodesGenerate
    \/ DoCloneGenerate
    \/ AddFile
    \/ RemoveFile

Spec == Init /\ [][Next]_vars

\* ------------------------------------------- audio conversion on its own

SampleValues == {-60, 60}

\* a waveform of shape (C, N), or (1, C, N) when batched
HostWaveform(c, n, batched, d) ==
    Array(IF batched THEN <<1, c, n>> ELSE <<c, n>>, d)

InitAudio ==
    /\ available = TRUE
    /\ model_cache = EmptyDict
    /\ voice_cache = EmptyDict
    /\ MODEL_CACHE = EmptyDict
    /\ input_files = FileNames
    /\ tmp_files = {}
    /\ nextId = 0
    /\ loadCalls = [k \in ModelKeys |-> 0]
    /\ returned = [k \in ModelKeys |-> {}]
    /\ deriveOk = [v \in VoiceIds |-> 0]
    /\ ncalls = 0
    /\ last = Blank
    /\ \E c \in 2..MaxChannels, n \in 2..MaxSamples, batched \in BOOLEAN :
          \E d \in [1..(c * n) -> SampleValues] :
              waveform = HostWaveform(c, n, batched, d)
    /\ mono = None

\* wav_np, sr = self.audio_tensor_to_numpy(ref_audio)
ConvertAudio ==
    /\ mono = None
    /\ mono' = audio_tensor_to_numpy(
                   [waveform |-> waveform, sample_rate |-> Rate]).wav
    /\ UNCHANGED <<available, model_cache, voice_cache, MODEL_CACHE,
                   input_files, tmp_files, nextId, loadCalls, returned,
                   deriveOk, ncalls, last, waveform>>

NextAudio == ConvertAudio

SpecAudio == InitAudio /\ [][NextAudio]_vars

\* ------------------------------------------------------------------ claims

NodeOps == {"load_model", "generate", "generate_with_clone", "generate_simple"}
SpeechOps == {"generate", "generate_with_clone", "generate_simple",
              "nodes_generate", "nodes_clone"}
Rejections == {"parse_error", "not_1d", "too_short"}
EngineCalled(call) == \E i \in 1..Len(last.calls) : last.calls[i] = call

\* the cache a model key lives in
CacheOf(k) == IF k = "pocket_tts" THEN MODEL_CACHE ELSE model_cache

\* every entry of dictionary d is in dictionary e, unchanged
Keeps(d, e) == \A k \in DOMAIN d : k \in DOMAIN e /\ e[k] = d[k]

\* C1 as stated: once a get-or-load for a model key has returned, one handle
\* has been returned for it and TTSModel.load_model was invoked exactly once
\* for it.
C1_LoadedExactlyOnce ==
    \A k \in ModelKeys :
        returned[k] # {} => Cardinality(returned[k]) = 1 /\ loadCalls[k] = 1

\* C1 amended: every get-or-load for a model key that returns hands back the
\* one handle cached under it, and once such a call has returned
\* TTSModel.load_model is never invoked for that key again (attempts that
\* raised came before and stored nothing).
C1_OneHandlePerKey ==
    /\ [](\A k \in ModelKeys :
            returned[k] # {} =>
                k \in DOMAIN CacheOf(k) /\ returned[k] = {CacheOf(k)[k]})
    /\ [][\A k \in ModelKeys :
            returned[k] # {} => loadCalls'[k] = loadCalls[k]]_vars

\* a loader call served from the cache after a failed and a successful load
C1_Witness ==
    /\ last.op = "load_model" /\ last.outcome = "ok" /\ last.calls = <<>>
    /\ returned[ModelKey(last.voice)] = {last.model}
    /\ loadCalls[ModelKey(last.voice)] = 2

\* C2: a voice identifier that was derived once is never derived again, so
\* A, B, A costs two derivations.
C2_NoSecondDerivation == \A id \in VoiceIds : deriveOk[id] <= 1

\* C3: the clone node's staging file is gone once the call has exited,
\* however it exited; no call leaves one behind.
C3_NoStagingFileLeft ==
    /\ tmp_files = {}
    /\ last.tmp # "" => last.tmp \notin tmp_files

\* a clone call that staged a file and then failed in the engine
C3_Witness ==
    /\ last.op = "nodes_clone" /\ last.tmp # ""
    /\ last.outcome = "derive_fail"

\* C4: with the library missing every node operation fails with the
\* configuration error before anything else: no engine call, no handle, and
\* the caches stay empty.
C4_UnavailableFailsFirst ==
    ~available =>
        /\ last.op # "none" =>
              last.outcome = "config_error" /\ last.calls = <<>>
                  /\ last.state = NoState /\ last.tmp = ""
        /\ model_cache = EmptyDict /\ voice_cache = EmptyDict
        /\ MODEL_CACHE = EmptyDict /\ tmp_files = {} /\ nextId = 0
        /\ \A k \in ModelKeys : returned[k] = {} /\ loadCalls[k] = 0

\* every invocation made with the library missing, the last of the simple node
C4_Witness ==
    /\ ~available /\ ncalls = MaxCalls
    /\ last.op = "generate_simple" /\ last.outcome = "config_error"

\* C5: the clone node rejects a bad reference buffer before any engine call
\* and before staging; a buffer of MIN_SAMPLES or more is not rejected.
C5_RejectedBeforeEngine ==
    last.op = "nodes_clone" =>
        /\ last.outcome \in Rejections => last.calls = <<>> /\ last.tmp = ""
        /\ last.size >= MIN_SAMPLES /\ last.ndim = 1 => last.outcome \notin Rejections

\* C6: generate_with_clone on a reference file that is not in the input
\* directory fails with the not-found error with no voice state fetched and
\* no engine call, cached or not, and leaves the voice cache as it was.
C6_MissingFileFailsFirst ==
    /\ [](available /\ last.op = "generate_with_clone" /\ last.missing
            /\ last.voice # NO_AUDIO_FILES =>
                last.outcome = "not_found" /\ last.calls = <<>>
                    /\ last.state = NoState)
    /\ [][ncalls' # ncalls /\ last'.op = "generate_with_clone" /\ last'.missing
            => voice_cache' = voice_cache]_vars

\* the file was cloned from, then removed, then asked for again
C6_Witness ==
    /\ last.op = "generate_with_clone" /\ last.missing
    /\ last.outcome = "not_found"
    /\ CloneKey(last.voice) \in DOMAIN voice_cache

\* C7: every speech operation given empty text fails with the missing-input
\* error before any engine call.
C7_EmptyTextRejected ==
    available /\ last.op \in SpeechOps /\ last.text = "" =>
        last.outcome = "missing_input" /\ last.calls = <<>>

\* C8: a (C, N) or (1, C, N) waveform comes back as N samples, each the
\* average of the C channel values at that index.
C8_ChannelAverage ==
    mono # None =>
        LET n == waveform.shape[Len(waveform.shape)]
            c == waveform.shape[Len(waveform.shape) - 1]
        IN  /\ mono.shape = <<n>>
            /\ \A i \in 1..n :
                  c * mono.data[i] =
                      SumTo([k \in 1..c |-> waveform.data[(k - 1) * n + i]], c)

\* C8 for two channels, where the code does average across the channels
C8_StereoAverage ==
    mono # None /\ waveform.shape[Len(waveform.shape) - 1] = 2 =>
        LET n == waveform.shape[Len(waveform.shape)]
        IN  /\ mono.shape = <<n>>
            /\ \A i \in 1..n :
                  2 * mono.data[i] = waveform.data[i] + waveform.data[n + i]

\* C9: in node.py the voice state given to generate_audio was derived by the
\* engine handle it is given to.
C9_StateFromSameHandle ==
    last.op \in NodeOps /\ EngineCalled("generate_audio") =>
        last.state.by = last.model.id

\* C10 as stated: an invocation in which model construction or voice
\* derivation raised leaves all caches exactly as they were.
C10_FailureLeavesCaches ==
    [][ncalls' # ncalls /\ last'.outcome \in {"load_fail", "derive_fail"} =>
          /\ model_cache' = model_cache
          /\ MODEL_CACHE' = MODEL_CACHE
          /\ voice_cache' = voice_cache]_vars

\* C10 amended: a failed construction leaves all caches as they were; a
\* failed derivation leaves the voice cache as it was and removes or replaces
\* no model entry, but the model such a call loaded itself stays cached.
C10_FailureKeepsEntries ==
    [][ncalls' # ncalls =>
          /\ last'.outcome = "load_fail" =>
                /\ model_cache' = model_cache
                /\ MODEL_CACHE' = MODEL_CACHE
                /\ voice_cache' = voice_cache
          /\ last'.outcome = "derive_fail" =>
                /\ voice_cache' = voice_cache
                /\ Keeps(model_cache, model_cache')
                /\ Keeps(MODEL_CACHE, MODEL_CACHE')
                /\ (model_cache' # model_cache \/ MODEL_CACHE' # MODEL_CACHE)
                      => last'.calls = <<"load_model", "get_state">>]_vars

\* the simple node loaded its model, then the derivation raised, with another
\* voice already cached
C10_Witness ==
    /\ last.op = "generate_simple" /\ last.outcome = "derive_fail"
    /\ last.calls = <<"load_model", "get_state">>
    /\ "model_simple" \in DOMAIN model_cache
    /\ voice_cache # EmptyDict
    /\ VoiceKey(last.voice) \notin DOMAIN voice_cache

====
